---- MODULE Spec2Model ----
(***************************************************************************)
(* A model of paasta_tools/utils.py: bounded-time command execution        *)
(* (_run, _timeout, _log, format_log_line) with its watchdog timer thread  *)
(* and the child process, and the atomic file replacement                  *)
(* (atomic_file_write, get_umask).                                         *)
(*                                                                         *)
(* Strings are sequences of tokens (one-character strings or short words); *)
(* a line is such a sequence, the captured output a sequence of lines.     *)
(***************************************************************************)
EXTENDS Integers, Sequences, FiniteSets, TLC

\* ------------------------------------------------------------------ bounds

\* The child writes at most MaxLines lines to its merged stdout/stderr.
MaxLines == 2
\* Timeouts range over 0..MaxTimeout; 0 stands for "no timeout" (None).
MaxTimeout == 1
\* The body of an atomic_file_write scope writes at most MaxChunks chunks.
MaxChunks == 2
\* A text given to remove_ansi_escape_sequences has at most MaxText characters.
MaxText == 6

\* --------------------------------------------------------------- constants

ANY_CLUSTER == "N/A"
ANY_INSTANCE == "N/A"
DEFAULT_LOGLEVEL == "event"

LOG_COMPONENTS ==
    {"build", "deploy", "app_output", "app_request", "app_errors",
     "lb_requests", "lb_errors", "monitoring"}

\* The return code of a child ended by SIGKILL, which _run reads as a timeout.
KILLED == -9

ESC == "ESC"
LF == "LF"
Digits == {"0", "1", "2", "3", "4", "5", "6", "7", "8", "9"}

\* ------------------------------------------------------------ pure helpers

\* no_escape = re.compile('\x1B\[[0-9;]*[mK]'): the parameter characters.
ParamChars == Digits \cup {";"}
FinalChars == {"m", "K"}

RECURSIVE SkipParams(_, _)
\* The first index at or after j of s that is not a parameter character
\* (Len(s) + 1 when there is none): the greedy [0-9;]*.
SkipParams(s, j) ==
    IF j <= Len(s) /\ s[j] \in ParamChars THEN SkipParams(s, j + 1) ELSE j

\* The index of the last character of a match of no_escape starting at i,
\* or 0 when no match starts at i.
MatchEnd(s, i) ==
    IF i + 1 <= Len(s) /\ s[i] = ESC /\ s[i + 1] = "["
    THEN LET j == SkipParams(s, i + 2)
         IN  IF j <= Len(s) /\ s[j] \in FinalChars THEN j ELSE 0
    ELSE 0

RECURSIVE SubFrom(_, _)
\* no_escape.sub('', s) from index i on: leftmost non-overlapping matches
\* are dropped, every other character is kept.
SubFrom(s, i) ==
    IF i > Len(s) THEN <<>>
    ELSE LET e == MatchEnd(s, i)
         IN  IF e # 0 THEN SubFrom(s, e + 1)
             ELSE <<s[i]>> \o SubFrom(s, i + 1)

remove_ansi_escape_sequences(line) == SubFrom(line, 1)

RECURSIVE RStripNewline(_)
\* line.rstrip('\n')
RStripNewline(s) ==
    IF s # <<>> /\ s[Len(s)] = LF
    THEN RStripNewline(SubSeq(s, 1, Len(s) - 1))
    ELSE s

RECURSIVE Join(_)
\* '\n'.join(lines)
Join(lines) ==
    IF lines = <<>> THEN <<>>
    ELSE IF Len(lines) = 1 THEN lines[1]
    ELSE lines[1] \o <<LF>> \o Join(Tail(lines))

\* "%s" of the timeout argument
TimeoutStr(t) == IF t = 0 THEN "None" ELSE ToString(t)

\* "Command '%s' timed out (longer than %ss)" % (command, timeout)
TimedOutLine(cmd, t) ==
    <<"Command '", cmd, "' timed out (longer than ", TimeoutStr(t), "s)">>

\* The errors Popen raises when the child cannot be started:
\* ENOENT (2) and EACCES (13), with e.strerror.
SpawnErrnos == {2, 13}
StrError(e) ==
    IF e = 2 THEN <<"No such file or directory">> ELSE <<"Permission denied">>

validate_log_component(component) == component \in LOG_COMPONENTS

\* format_log_line without its timestamp: the record that is serialized.
format_log_line(level, cluster, instance, component, line) ==
    [level |-> level, cluster |-> cluster, instance |-> instance,
     component |-> component,
     message |-> remove_ansi_escape_sequences(line)]

\* _log(service_name, line, component, level): what it echoes, what it hands
\* to clog.log_line, and the exception it ends with ("none" when it returns).
\* The echo comes first, then format_log_line validates the component.
LogOutcome(line, component, level) ==
    IF level \notin {"event", "debug"}
    THEN [exc |-> "NoSuchLogLevel", echo |-> <<>>, clog |-> <<>>]
    ELSE LET chan == IF level = "event" THEN "stdout" ELSE "stderr"
         IN  IF ~validate_log_component(component)
             THEN [exc |-> "NoSuchLogComponent",
                   echo |-> <<<<chan, line>>>>, clog |-> <<>>]
             ELSE [exc |-> "none",
                   echo |-> <<<<chan, line>>>>,
                   clog |-> <<format_log_line(level, ANY_CLUSTER, ANY_INSTANCE,
                                              component, line)>>]

\* ------------------------------------------------------------------- state

VARIABLES
    \* the arguments of the call of _run
    command, timeout, log, component, loglevel,
    \* the foreground thread: its position, locals and how the call ended
    pc, output, line, returncode, oserr, exc, result, proctimer,
    \* the child process and the pipe of its merged stdout/stderr
    childState, childStatus, pipe, written, pidReused,
    \* the threading.Timer thread
    tpc, finished, fired, timerExc,
    \* signals sent by process.kill(): how many; where the foreground was
    \* when one killed the child ("none": none did); whether one hit an
    \* unrelated process; whether proctimer.cancel() has returned
    sigSent, killAt, strayKill, cancelReturned,
    \* the sinks of _log
    logged, echoed, clogged,
    \* atomic_file_write: the file system, the scope and a reader
    fs, umask, wpc, intent, buf, nwritten, old_umask, mode, initial, seen,
    wexc,
    \* the file-creation mask of the process when the scope was entered
    umask0,
    \* whether a descendant of the child holds the write end of the pipe
    \* ("none": the child forked none, "alive", "gone")
    descState,
    \* remove_ansi_escape_sequences: the text, the text sanitized once and
    \* twice, and how far the sanitizing has got
    text, once, twice, spc

runArgs == <<command, timeout, log, component, loglevel>>
fgVars == <<pc, output, line, returncode, oserr, exc, result, proctimer>>
childVars == <<childState, childStatus, pipe, written, pidReused>>
timerVars == <<tpc, finished, fired, timerExc>>
sigVars == <<sigSent, killAt, strayKill, cancelReturned>>
logVars == <<logged, echoed, clogged>>
runVars ==
    <<runArgs, fgVars, childVars, timerVars, sigVars, logVars, descState>>
fileVars ==
    <<fs, umask, wpc, intent, buf, nwritten, old_umask, mode, initial, seen,
      wexc, umask0>>
ansiVars == <<text, once, twice, spc>>
vars == <<runVars, fileVars, ansiVars>>

Commands == {"sleep 5"}
LineContents == {<<"a">>, <<ESC, "[", "1", "m", "b">>}
\* Exit statuses of a child that ends on its own or is ended by another
\* party: 0, 1, and -9 (SIGKILL sent by someone else).
ExitStatuses == {0, 1, KILLED}


\* ------------------------------------------------------------- _run: Init

LoggingValid == validate_log_component(component) /\ loglevel \in {"event", "debug"}

InitRun ==
    /\ command \in Commands
    /\ timeout \in 0..MaxTimeout
    /\ log \in BOOLEAN
    /\ component \in (IF log THEN {"build", "bogus"} ELSE {"unset"})
    /\ loglevel \in (IF log THEN {DEFAULT_LOGLEVEL, "debug", "bogus"} ELSE {"unset"})
    /\ pc = "popen"
    /\ output = <<>>
    /\ line = <<>>
    /\ returncode = 0
    /\ oserr = 0
    /\ exc = "none"
    /\ result = <<>>
    /\ proctimer = "unbound"
    /\ childState = "none"
    /\ childStatus = 0
    /\ pipe = <<>>
    /\ written = <<>>
    /\ pidReused = FALSE
    /\ tpc = "none"
    /\ finished = FALSE
    /\ fired = FALSE
    /\ timerExc = "none"
    /\ sigSent = 0
    /\ killAt = "none"
    /\ strayKill = FALSE
    /\ cancelReturned = FALSE
    /\ logged = <<>>
    /\ echoed = <<>>
    /\ clogged = <<>>
    /\ descState = "none"

\* --------------------------------------------------- _run: the foreground

\* process = Popen(shlex.split(command), stdout=PIPE, stderr=STDOUT, env=env)
PopenOk ==
    /\ pc = "popen"
    /\ pc' = "timer"
    /\ childState' = "running"
    /\ UNCHANGED <<runArgs, output, line, returncode, oserr, exc, result,
                   proctimer, childStatus, pipe, written, pidReused,
                   timerVars, sigVars, logVars, fileVars, ansiVars,
                   descState>>

\* Popen raises OSError: control goes to the except clause.
PopenFails ==
    /\ pc = "popen"
    /\ \E e \in SpawnErrnos : oserr' = e
    /\ pc' = "except"
    /\ UNCHANGED <<runArgs, output, line, returncode, exc, result, proctimer,
                   childVars, timerVars, sigVars, logVars, fileVars, ansiVars,
                   descState>>

\* if timeout: proctimer = threading.Timer(timeout, _timeout, (process,));
\*             proctimer.start()
StartTimer ==
    /\ pc = "timer"
    /\ pc' = "read"
    /\ IF timeout # 0
       THEN proctimer' = "bound" /\ tpc' = "waiting"
       ELSE UNCHANGED <<proctimer, tpc>>
    /\ UNCHANGED <<runArgs, output, line, returncode, oserr, exc, result,
                   childVars, finished, fired, timerExc, sigVars, logVars,
                   fileVars, ansiVars,
                   descState>>

\* process.stdout.readline() returns the next line of the pipe.
ReadLine ==
    /\ pc = "read"
    /\ pipe # <<>>
    /\ line' = Head(pipe)
    /\ pipe' = Tail(pipe)
    /\ pc' = IF log THEN "log" ELSE "append"
    /\ UNCHANGED <<runArgs, output, returncode, oserr, exc, result, proctimer,
                   childState, childStatus, written, pidReused, timerVars,
                   sigVars, logVars, fileVars, ansiVars,
                   descState>>

\* readline() returns '' once the pipe is drained and every process that
\* holds its write end (the child, a descendant that inherited it) has
\* exited: iter(readline, '') ends the loop.
ReadEOF ==
    /\ pc = "read"
    /\ pipe = <<>>
    /\ childState \in {"zombie", "reaped"}
    /\ descState # "alive"
    /\ pc' = "wait"
    /\ UNCHANGED <<runArgs, output, line, returncode, oserr, exc, result,
                   proctimer, childVars, timerVars, sigVars, logVars,
                   fileVars, ansiVars,
                   descState>>

\* if log: _log(..., line=line.rstrip('\n'), ...). An exception of _log is
\* no OSError: it leaves _run.
LogLine ==
    /\ pc = "log"
    /\ LET l == RStripNewline(line)
           o == LogOutcome(l, component, loglevel)
       IN  /\ logged' = Append(logged, l)
           /\ echoed' = echoed \o o.echo
           /\ clogged' = clogged \o o.clog
           /\ exc' = o.exc
           /\ pc' = IF o.exc = "none" THEN "append" ELSE "raised"
    /\ UNCHANGED <<runArgs, output, line, returncode, oserr, result, proctimer,
                   childVars, timerVars, sigVars, fileVars, ansiVars,
                   descState>>

\* AppendLine as it would be with output.insert(0, ...): the newest line
\* goes to the front of the buffer.
AppendLineFront ==
    /\ pc = "append"
    /\ output' = <<RStripNewline(line)>> \o output
    /\ pc' = "read"
    /\ UNCHANGED <<runArgs, line, returncode, oserr, exc, result, proctimer,
                   childVars, timerVars, sigVars, logVars, fileVars, ansiVars,
                   descState>>

\* output.append(line.rstrip('\n'))
AppendLine ==
    /\ pc = "append"
    /\ output' = Append(output, RStripNewline(line))
    /\ pc' = "read"
    /\ UNCHANGED <<runArgs, line, returncode, oserr, exc, result, proctimer,
                   childVars, timerVars, sigVars, logVars, fileVars, ansiVars,
                   descState>>

\* returncode = process.wait(): blocks until the child has exited, reaps it
\* (unless poll() already has) and returns its status.
Wait ==
    /\ pc = "wait"
    /\ childState \in {"zombie", "reaped"}
    /\ childState' = "reaped"
    /\ returncode' = childStatus
    /\ pc' = "stop_timer"
    /\ UNCHANGED <<runArgs, output, line, oserr, exc, result, proctimer,
                   childStatus, pipe, written, pidReused, timerVars, sigVars,
                   logVars, fileVars, ansiVars,
                   descState>>

\* except OSError as e: if log: _log(line=e.strerror.rstrip('\n'));
\* output.append(e.strerror.rstrip('\n')); returncode = e.errno
ExceptOSError ==
    /\ pc = "except"
    /\ LET l == RStripNewline(StrError(oserr))
           o == IF log THEN LogOutcome(l, component, loglevel)
                ELSE [exc |-> "none", echo |-> <<>>, clog |-> <<>>]
       IN  /\ logged' = IF log THEN Append(logged, l) ELSE logged
           /\ echoed' = echoed \o o.echo
           /\ clogged' = clogged \o o.clog
           /\ exc' = o.exc
           /\ IF o.exc = "none"
              THEN /\ output' = Append(output, l)
                   /\ returncode' = oserr
                   /\ pc' = "stop_timer"
              ELSE /\ pc' = "raised"
                   /\ UNCHANGED <<output, returncode>>
    /\ UNCHANGED <<runArgs, line, oserr, result, proctimer, childVars,
                   timerVars, sigVars, fileVars, ansiVars,
                   descState>>

\* if timeout: proctimer.cancel(). proctimer is a local that is bound only
\* after Popen returned: reading it unbound raises UnboundLocalError.
StopTimer ==
    /\ pc = "stop_timer"
    /\ IF timeout = 0
       THEN /\ pc' = "check"
            /\ UNCHANGED <<exc, finished, cancelReturned>>
       ELSE IF proctimer = "unbound"
       THEN /\ pc' = "raised"
            /\ exc' = "UnboundLocalError"
            /\ UNCHANGED <<finished, cancelReturned>>
       ELSE /\ pc' = "check"
            /\ finished' = TRUE
            /\ cancelReturned' = TRUE
            /\ UNCHANGED exc
    /\ UNCHANGED <<runArgs, output, line, returncode, oserr, result, proctimer,
                   childVars, tpc, fired, timerExc, sigSent, killAt,
                   strayKill, logVars, fileVars, ansiVars,
                   descState>>

\* if returncode == -9: output.append("Command ... timed out ...")
\* return returncode, '\n'.join(output)
Return ==
    /\ pc = "check"
    /\ LET out == IF returncode = KILLED
                  THEN Append(output, TimedOutLine(command, timeout))
                  ELSE output
       IN  /\ output' = out
           /\ result' = <<returncode, Join(out)>>
    /\ pc' = "returned"
    /\ UNCHANGED <<runArgs, line, returncode, oserr, exc, proctimer, childVars,
                   timerVars, sigVars, logVars, fileVars, ansiVars,
                   descState>>

\* ------------------------------------------- the threading.Timer thread

\* Timer.run: finished.wait(interval) ends by the interval elapsing with
\* the event not set: the timer goes on to call _timeout(process).
TimerElapses ==
    /\ tpc = "waiting"
    /\ ~finished
    /\ tpc' = "fire"
    /\ fired' = TRUE
    /\ UNCHANGED <<runArgs, fgVars, childVars, finished, timerExc, sigVars,
                   logVars, fileVars, ansiVars,
                   descState>>

\* Timer.run: finished.wait(interval) ends by cancel() having set the
\* event: the timer ends without calling _timeout.
TimerCancelled ==
    /\ tpc = "waiting"
    /\ finished
    /\ tpc' = "done"
    /\ UNCHANGED <<runArgs, fgVars, childVars, finished, fired, timerExc,
                   sigVars, logVars, fileVars, ansiVars,
                   descState>>

\* _timeout: if process.poll() is None. poll() reaps a child that has
\* exited and answers its status; it answers None for a running child.
TimeoutPoll ==
    /\ tpc = "fire"
    /\ IF childState = "running"
       THEN tpc' = "kill" /\ UNCHANGED childState
       ELSE tpc' = "done" /\ childState' = "reaped"
    /\ UNCHANGED <<runArgs, fgVars, childStatus, pipe, written, pidReused,
                   finished, fired, timerExc, sigVars, logVars, fileVars, ansiVars,
                   descState>>

\* What os.kill(process.pid, SIGKILL) can do, by the state of the pid:
\*   "child"  the running child is killed
\*   "zombie" the signal goes to the exited, unreaped child: no effect
\*   "esrch"  no such process: OSError(ESRCH), which _timeout swallows
\*   "stray"  the pid was reused: the signal kills an unrelated process
\*   "eperm"  the pid was reused by a process of another user:
\*            OSError(EPERM), which _timeout re-raises
KillOutcomes ==
    IF childState = "running" THEN {"child"}
    ELSE IF childState = "zombie" THEN {"zombie"}
    ELSE IF pidReused THEN {"stray", "eperm"}
    ELSE {"esrch"}

\* _timeout: process.kill() in its try/except OSError.
TimeoutKill ==
    /\ tpc = "kill"
    /\ tpc' = "done"
    /\ \E k \in KillOutcomes :
        /\ childState' = IF k = "child" THEN "zombie" ELSE childState
        /\ childStatus' = IF k = "child" THEN KILLED ELSE childStatus
        /\ killAt' = IF k = "child" THEN pc ELSE killAt
        /\ strayKill' = (strayKill \/ k = "stray")
        /\ sigSent' = IF k \in {"child", "zombie", "stray"}
                      THEN sigSent + 1 ELSE sigSent
        /\ timerExc' = IF k = "eperm" THEN "OSError" ELSE timerExc
    /\ UNCHANGED <<runArgs, fgVars, pipe, written, pidReused, finished, fired,
                   cancelReturned, logVars, fileVars, ansiVars,
                   descState>>

\* ------------------------------------------- the child and the system

\* The child writes one more line to its merged stdout/stderr.
ChildWrite ==
    /\ childState = "running"
    /\ Len(written) < MaxLines
    /\ \E l \in LineContents :
        /\ pipe' = Append(pipe, l \o <<LF>>)
        /\ written' = Append(written, l)
    /\ UNCHANGED <<runArgs, fgVars, childState, childStatus, pidReused,
                   timerVars, sigVars, logVars, fileVars, ansiVars,
                   descState>>

\* The child exits on its own, or another party ends it with a signal.
ChildExit ==
    /\ childState = "running"
    /\ childState' = "zombie"
    /\ \E s \in ExitStatuses : childStatus' = s
    /\ UNCHANGED <<runArgs, fgVars, pipe, written, pidReused, timerVars,
                   sigVars, logVars, fileVars, ansiVars,
                   descState>>

\* Once the child is reaped its pid is free, and the system may give it to
\* a new process.
PidReuse ==
    /\ childState = "reaped"
    /\ ~pidReused
    /\ pidReused' = TRUE
    /\ UNCHANGED <<runArgs, fgVars, childState, childStatus, pipe, written,
                   timerVars, sigVars, logVars, fileVars, ansiVars,
                   descState>>

\* The child forks a descendant, which inherits the write end of the pipe
\* (stdout=PIPE, stderr=STDOUT) and is no target of process.kill().
ChildForks ==
    /\ childState = "running"
    /\ descState = "none"
    /\ descState' = "alive"
    /\ UNCHANGED <<runArgs, fgVars, childVars, timerVars, sigVars, logVars,
                   fileVars, ansiVars>>

\* The descendant exits and its copy of the write end is closed.
DescendantExits ==
    /\ descState = "alive"
    /\ descState' = "gone"
    /\ UNCHANGED <<runArgs, fgVars, childVars, timerVars, sigVars, logVars,
                   fileVars, ansiVars>>

\* ------------------------------------------------- atomic_file_write

\* 0666, the widest mode atomic_file_write gives a file
MODE_MAX == 438
\* 0022, the mask get_umask sets while it reads the old one
UMASK_PROBE == 18
\* 0600, the mode tempfile gives the staging file it creates
MODE_TEMP == 384
RECURSIVE AndNot(_, _)
\* a & ~b on non-negative integers
AndNot(a, b) ==
    IF a = 0 THEN 0
    ELSE (IF a % 2 = 1 /\ b % 2 = 0 THEN 1 ELSE 0)
         + 2 * AndNot(a \div 2, b \div 2)

target_path == [dir |-> "d", name |-> <<"t">>]

\* temp_target_path as it would be if the scope wrote to the target itself.
temp_is_target(target) == target

\* f.name of NamedTemporaryFile(dir=dirname, prefix='.%s-' % basename):
\* a fresh name in the directory of the target.
temp_target_path(target) ==
    [dir |-> target.dir, name |-> <<".">> \o target.name \o <<"-", "tmpXXXX">>]

Paths == {target_path, temp_target_path(target_path)}

Absent == [exists |-> FALSE, content |-> <<>>, mode |-> 0]
File(c, m) == [exists |-> TRUE, content |-> c, mode |-> m]

OldContent == <<"o1", "o2">>
\* Modes of a target that exists before the scope: 0644, 0600
OldModes == {420, 384}
Chunks == {"x", "y"}
Intents == UNION {[1..n -> Chunks] : n \in 0..MaxChunks}
\* File-creation masks of the process: 0022, 0002, 0077
Umasks == {18, 2, 63}

InitFile ==
    /\ initial \in {Absent} \cup {File(OldContent, m) : m \in OldModes}
    /\ fs = [p \in Paths |-> IF p = target_path THEN initial ELSE Absent]
    /\ umask \in Umasks
    /\ umask0 = umask
    /\ intent \in Intents
    /\ wpc = "enter"
    /\ buf = <<>>
    /\ nwritten = 0
    /\ old_umask = 0
    /\ mode = 0
    /\ seen = [state |-> "unread", content |-> <<>>]
    /\ wexc = "none"

\* What close() does to the staging file: the buffered chunks reach it.
Flushed(files) ==
    LET t == temp_target_path(target_path)
    IN  [files EXCEPT ![t].content = @ \o buf]

\* tempfile.NamedTemporaryFile(dir=dirname, prefix=..., delete=False)
\* creates the empty staging file.
CreateStaging ==
    /\ wpc = "enter"
    /\ fs' = [fs EXCEPT ![temp_target_path(target_path)] = File(<<>>, MODE_TEMP)]
    /\ wpc' = "body"
    /\ UNCHANGED <<umask, intent, buf, nwritten, old_umask, mode, initial,
                   seen, wexc, runVars, ansiVars,
                   umask0>>

\* NamedTemporaryFile raises (directory missing or not writable).
CreateStagingFails ==
    /\ wpc = "enter"
    /\ wpc' = "raised"
    /\ wexc' = "OSError"
    /\ UNCHANGED <<fs, umask, intent, buf, nwritten, old_umask, mode, initial,
                   seen, runVars, ansiVars,
                   umask0>>

\* The body of the scope writes its next chunk to f (buffered).
BodyWrite ==
    /\ wpc = "body"
    /\ nwritten < Len(intent)
    /\ buf' = Append(buf, intent[nwritten + 1])
    /\ nwritten' = nwritten + 1
    /\ UNCHANGED <<fs, umask, wpc, intent, old_umask, mode, initial, seen,
                   wexc, runVars, ansiVars,
                   umask0>>

\* The buffer of f is written out (it is full, or the body calls flush).
BodyFlush ==
    /\ wpc = "body"
    /\ buf # <<>>
    /\ fs' = Flushed(fs)
    /\ buf' = <<>>
    /\ UNCHANGED <<umask, wpc, intent, nwritten, old_umask, mode, initial,
                   seen, wexc, runVars, ansiVars,
                   umask0>>

\* The body ends normally: the with statement closes f.
BodyReturn ==
    /\ wpc = "body"
    /\ nwritten = Len(intent)
    /\ fs' = Flushed(fs)
    /\ buf' = <<>>
    /\ wpc' = "umask"
    /\ UNCHANGED <<umask, intent, nwritten, old_umask, mode, initial, seen,
                   wexc, runVars, ansiVars,
                   umask0>>

\* BodyRaise as it would be with the chmod and rename in a finally clause:
\* they run although the body raised.
BodyRaiseThenRename ==
    /\ wpc = "body"
    /\ fs' = Flushed(fs)
    /\ buf' = <<>>
    /\ wpc' = "umask"
    /\ wexc' = "BodyError"
    /\ UNCHANGED <<umask, intent, nwritten, old_umask, mode, initial, seen,
                   runVars, ansiVars,
                   umask0>>

\* The body raises: the exception is thrown into the generator at the
\* yield, the with statement closes f and the exception leaves the scope.
BodyRaise ==
    /\ wpc = "body"
    /\ fs' = Flushed(fs)
    /\ buf' = <<>>
    /\ wpc' = "raised"
    /\ wexc' = "BodyError"
    /\ UNCHANGED <<umask, intent, nwritten, old_umask, mode, initial, seen,
                   runVars, ansiVars,
                   umask0>>

\* get_umask: old_umask = os.umask(0022)
GetUmaskProbe ==
    /\ wpc = "umask"
    /\ old_umask' = umask
    /\ umask' = UMASK_PROBE
    /\ wpc' = "umask_restore"
    /\ UNCHANGED <<fs, intent, buf, nwritten, mode, initial, seen, wexc,
                   runVars, ansiVars,
                   umask0>>

\* GetUmaskRestore as it would be without os.umask(old_umask): the probe
\* mask stays in force.
GetUmaskNoRestore ==
    /\ wpc = "umask_restore"
    /\ mode' = AndNot(MODE_MAX, old_umask)
    /\ wpc' = "chmod"
    /\ UNCHANGED <<fs, umask, intent, buf, nwritten, old_umask, initial, seen,
                   wexc, runVars, ansiVars, umask0>>

\* get_umask: os.umask(old_umask); return old_umask;
\* mode = 0666 & (~get_umask())
GetUmaskRestore ==
    /\ wpc = "umask_restore"
    /\ umask' = old_umask
    /\ mode' = AndNot(MODE_MAX, old_umask)
    /\ wpc' = "chmod"
    /\ UNCHANGED <<fs, intent, buf, nwritten, old_umask, initial, seen, wexc,
                   runVars, ansiVars,
                   umask0>>

\* os.chmod(temp_target_path, mode)
Chmod ==
    /\ wpc = "chmod"
    /\ fs' = [fs EXCEPT ![temp_target_path(target_path)].mode = mode]
    /\ wpc' = "rename"
    /\ UNCHANGED <<umask, intent, buf, nwritten, old_umask, mode, initial,
                   seen, wexc, runVars, ansiVars,
                   umask0>>

\* os.chmod raises.
ChmodFails ==
    /\ wpc = "chmod"
    /\ wpc' = "raised"
    /\ wexc' = "OSError"
    /\ UNCHANGED <<fs, umask, intent, buf, nwritten, old_umask, mode, initial,
                   seen, runVars, ansiVars,
                   umask0>>

\* rename(2) of src over dst: one step; renaming a path to itself changes
\* nothing.
Renamed(files, src, dst) ==
    IF src = dst THEN files
    ELSE [p \in DOMAIN files |->
            IF p = dst THEN files[src]
            ELSE IF p = src THEN Absent
            ELSE files[p]]

\* os.rename(temp_target_path, target_path)
Rename ==
    /\ wpc = "rename"
    /\ fs' = Renamed(fs, temp_target_path(target_path), target_path)
    /\ wpc' = "done"
    /\ UNCHANGED <<umask, intent, buf, nwritten, old_umask, mode, initial,
                   seen, wexc, runVars, ansiVars,
                   umask0>>

\* os.rename raises.
RenameFails ==
    /\ wpc = "rename"
    /\ wpc' = "raised"
    /\ wexc' = "OSError"
    /\ UNCHANGED <<fs, umask, intent, buf, nwritten, old_umask, mode, initial,
                   seen, runVars, ansiVars,
                   umask0>>

\* Another process opens the target path and reads it.
ReaderReads ==
    /\ seen' = IF fs[target_path].exists
               THEN [state |-> "read", content |-> fs[target_path].content]
               ELSE [state |-> "missing", content |-> <<>>]
    /\ seen' # seen
    /\ UNCHANGED <<fs, umask, wpc, intent, buf, nwritten, old_umask, mode,
                   initial, wexc, runVars, ansiVars,
                   umask0>>

\* -------------------------------------- remove_ansi_escape_sequences

\* The characters of a text: ESC, '[', a digit, ';', the final bytes 'm'
\* and 'K', and an ordinary character.
AnsiChars == {ESC, "[", "1", ";", "m", "K", "a"}
Texts == UNION {[1..n -> AnsiChars] : n \in 0..MaxText}

InitAnsi ==
    /\ text \in Texts
    /\ once = <<>>
    /\ twice = <<>>
    /\ spc = "text"

\* once = remove_ansi_escape_sequences(text)
Sanitize ==
    /\ spc = "text"
    /\ once' = remove_ansi_escape_sequences(text)
    /\ spc' = "once"
    /\ UNCHANGED <<text, twice, runVars, fileVars>>

\* twice = remove_ansi_escape_sequences(once)
SanitizeAgain ==
    /\ spc = "once"
    /\ twice' = remove_ansi_escape_sequences(once)
    /\ spc' = "twice"
    /\ UNCHANGED <<text, once, runVars, fileVars>>

\* --------------------------------------------------------- specifications

\* No call of _run is under way: the arguments of one that ends at once.
RunIdle ==
    /\ InitRun
    /\ timeout = 0
    /\ ~log

\* No atomic_file_write scope is under way.
FileIdle ==
    /\ InitFile
    /\ initial = Absent
    /\ umask = UMASK_PROBE
    /\ intent = <<>>

\* No text is being sanitized.
AnsiIdle ==
    /\ text = <<>>
    /\ once = <<>>
    /\ twice = <<>>
    /\ spc = "text"

Init == InitRun /\ FileIdle /\ AnsiIdle

\* One call of _run with its timer thread and its child.
Next ==
    \/ PopenOk
    \/ PopenFails
    \/ StartTimer
    \/ ReadLine
    \/ ReadEOF
    \/ LogLine
    \/ AppendLine
    \/ Wait
    \/ ExceptOSError
    \/ StopTimer
    \/ Return
    \/ TimerElapses
    \/ TimerCancelled
    \/ TimeoutPoll
    \/ TimeoutKill
    \/ ChildWrite
    \/ ChildExit
    \/ PidReuse
    \/ ChildForks
    \/ DescendantExits

Spec == Init /\ [][Next]_vars

\* One atomic_file_write scope with a concurrent reader of the target.
NextFile ==
    \/ CreateStaging
    \/ CreateStagingFails
    \/ BodyWrite
    \/ BodyFlush
    \/ BodyReturn
    \/ BodyRaise
    \/ GetUmaskProbe
    \/ GetUmaskRestore
    \/ Chmod
    \/ ChmodFails
    \/ Rename
    \/ RenameFails
    \/ ReaderReads

InitFileSpec == RunIdle /\ InitFile /\ AnsiIdle

SpecFile == InitFileSpec /\ [][NextFile]_vars

\* The steps of the thread that called _run.
Foreground ==
    \/ PopenOk
    \/ PopenFails
    \/ StartTimer
    \/ ReadLine
    \/ ReadEOF
    \/ LogLine
    \/ AppendLine
    \/ Wait
    \/ ExceptOSError
    \/ StopTimer
    \/ Return

\* The steps of the threading.Timer thread.
TimerThread ==
    \/ TimerElapses
    \/ TimerCancelled
    \/ TimeoutPoll
    \/ TimeoutKill

\* The call of _run with both threads scheduled fairly: a thread that can
\* take a step takes it, and the interval of the timer elapses. The child
\* and its descendants need not ever write or exit.
SpecLive ==
    /\ Init
    /\ [][Next]_vars
    /\ WF_vars(Foreground)
    /\ WF_vars(TimerThread)

\* remove_ansi_escape_sequences applied to a text, and to its result.
NextAnsi ==
    \/ Sanitize
    \/ SanitizeAgain

InitAnsiSpec == RunIdle /\ FileIdle /\ InitAnsi

SpecAnsi == InitAnsiSpec /\ [][NextAnsi]_vars

\* ------------------------------------------------------------ properties

Finished == pc \in {"returned", "raised"}
Spawned == childState # "none"

\* The watchdog of the call: idle (never armed), armed, fired (the timer
\* went on to call _timeout) or cancelled (cancel() set the event first).
WatchdogState ==
    IF tpc = "none" THEN "idle"
    ELSE IF fired THEN "fired"
    ELSE IF finished THEN "cancelled"
    ELSE "armed"

\* C1: a call whose Popen raised OSError (logging off, or on with valid
\* parameters) ends by returning (errno, strerror), never by raising, and
\* leaves no timer armed.
C1_SpawnFailureReturnsPair ==
    (oserr # 0 /\ (log => LoggingValid) /\ Finished) =>
        /\ pc = "returned"
        /\ result = <<oserr, Join(<<StrError(oserr)>>)>>
        /\ WatchdogState # "armed"

\* C2: a call with logging on and an unknown component or level never
\* creates a child, and ends by raising the validation error.
C2_ValidationBeforeSpawn ==
    (log /\ ~LoggingValid) =>
        /\ ~Spawned
        /\ Finished =>
            (pc = "raised" /\ exc \in {"NoSuchLogComponent", "NoSuchLogLevel"})

\* C3: when the watchdog kills the still running child during the call, the
\* call returns -9 and its output ends with the timed-out line for the
\* command and the timeout; a call that returns another code has no such
\* line appended.
C3_TimeoutYieldsKilledResult ==
    /\ (killAt \notin {"none", "returned", "raised"} /\ Finished) =>
        /\ pc = "returned"
        /\ returncode = KILLED
        /\ output # <<>>
        /\ output[Len(output)] = TimedOutLine(command, timeout)
        /\ result = <<KILLED, Join(output)>>
    /\ (pc = "returned" /\ returncode # KILLED) =>
        output = (IF oserr # 0 THEN <<StrError(oserr)>> ELSE written)

\* C4: a call without a timeout whose child was spawned returns the child's
\* exit status and exactly the newline-join of the lines the child wrote
\* (stated for the calls whose logging is off or valid).
C4_NoTimeoutExactOutput ==
    (timeout = 0 /\ Spawned /\ (log => LoggingValid) /\ Finished) =>
        /\ pc = "returned"
        /\ result = <<childStatus, Join(written)>>

\* C5: when a call that armed a timer has finished, by returning or by
\* raising, its timer has fired or has been cancelled: it is not left armed.
C5_FinishedCallLeavesNoTimerArmed ==
    (Finished /\ proctimer = "bound") =>
        WatchdogState \in {"fired", "cancelled"}

\* C6: once proctimer.cancel() has returned, _timeout sends no kill any
\* more, and at most one kill is sent per call.
C6_NoKillAfterCancel ==
    /\ [][cancelReturned => sigSent' = sigSent]_vars
    /\ [](sigSent <= 1)

\* C7: _timeout on a child that has exited is a silent no-op: no exception
\* leaves _timeout and its kill hits no process.
C7_TimeoutOnExitedChildIsNoOp ==
    /\ timerExc = "none"
    /\ ~strayKill

\* C8: a result with exit code -9 means that the timer of this call was
\* armed, fired and killed the child.
C8_KilledCodeMeansWatchdogKill ==
    (pc = "returned" /\ returncode = KILLED) =>
        /\ proctimer = "bound"
        /\ fired
        /\ killAt # "none"

\* What a reader may see of the target: its old content, if it existed,
\* or the whole content the scope was to write.
CompleteContents ==
    {intent} \cup (IF initial.exists THEN {initial.content} ELSE {})

\* C9: at every step of an atomic_file_write scope a reader of the target
\* sees the complete old or the complete new content, never a partial one,
\* and never a missing target if the target existed before.
C9_ReaderSeesOldOrNew ==
    /\ seen.state = "read" => seen.content \in CompleteContents
    /\ initial.exists => seen.state # "missing"
    /\ fs[target_path].exists => fs[target_path].content \in CompleteContents
    /\ initial.exists => fs[target_path].exists

\* C9 witness: the scope replaced an existing target with two chunks and
\* the reader has read the new content.
C9_Witness ==
    /\ wpc = "done"
    /\ initial.exists
    /\ Len(intent) >= 2
    /\ seen = [state |-> "read", content |-> intent]

\* C10: a scope that ended with an error (staging file not created, body
\* raised, chmod or rename failed) raised it to the caller and left the
\* target as it was before the scope.
C10_ErrorLeavesTargetUntouched ==
    wexc # "none" =>
        /\ wpc = "raised"
        /\ fs[target_path] = initial

\* C10 witness: the body raised after a chunk reached the staging file; the
\* existing target is as before and the staging file is left behind.
C10_Witness ==
    /\ wpc = "raised"
    /\ wexc = "BodyError"
    /\ initial.exists
    /\ fs[target_path] = initial
    /\ fs[temp_target_path(target_path)].exists
    /\ fs[temp_target_path(target_path)].content # <<>>

\* Whether s contains a match of no_escape: ESC [ <digits and ;> <m or K>.
HasSequence(s) == \E i \in 1..Len(s) : MatchEnd(s, i) # 0

\* C11: remove_ansi_escape_sequences is idempotent: sanitizing a sanitized
\* text changes nothing, and a sanitized text contains no escape sequence.
C11_SanitizeIdempotent ==
    /\ spc \in {"once", "twice"} => ~HasSequence(once)
    /\ spc = "twice" => twice = once

\* C12: when a call with logging on ends with the validation error of an
\* unknown component or level, nothing has been echoed to stdout or stderr
\* and nothing has been handed to clog.log_line.
C12_ValidationErrorLeavesSinksUntouched ==
    (log /\ ~LoggingValid /\ exc \in {"NoSuchLogComponent", "NoSuchLogLevel"}) =>
        /\ echoed = <<>>
        /\ clogged = <<>>

\* The lines the read loop has taken from the stream so far, in order.
LinesRead == SubSeq(written, 1, Len(written) - Len(pipe))

\* C13: in a call with valid logging parameters whose child was spawned,
\* the lines handed to _log and the output buffer advance in lock step and
\* in read order: the buffer is a prefix of the logged lines and at most
\* one line shorter, a line is logged before it is appended, both hold
\* each line read once, and when the loop has ended the buffer is the
\* sequence of the lines read.
C13_LoggedAndBufferedInLockStep ==
    /\ (log /\ LoggingValid /\ ~Spawned) => output = logged
    /\ (log /\ LoggingValid /\ Spawned) =>
        /\ pc \in {"timer", "read"} =>
            (output = LinesRead /\ logged = LinesRead)
        /\ pc = "log" =>
            (logged = output /\ LinesRead = Append(logged, RStripNewline(line)))
        /\ pc = "append" =>
            (logged = LinesRead /\ logged = Append(output, RStripNewline(line)))
        /\ pc \in {"wait", "stop_timer", "check"} =>
            (pipe = <<>> /\ output = written /\ logged = written)
        /\ pc = "returned" =>
            /\ logged = written
            /\ output = (IF returncode = KILLED
                         THEN Append(written, TimedOutLine(command, timeout))
                         ELSE written)
        /\ Len(clogged) = Len(logged)
        /\ Len(echoed) = Len(logged)

\* C13 witness: with valid logging, the second of two different lines has
\* been logged and is not yet appended.
C13_Witness ==
    /\ log
    /\ LoggingValid
    /\ pc = "append"
    /\ Len(output) = 1
    /\ Len(logged) = 2
    /\ logged[1] # logged[2]

\* C16: when a call that spawned a child has finished, by returning or by
\* raising, the child has terminated and its exit status has been
\* collected.
C16_FinishedCallLeavesNoChild ==
    (Finished /\ Spawned) => childState = "reaped"

\* C14: every call with a timeout whose child was spawned eventually
\* returns.
C14_TimedCallEventuallyReturns ==
    (Spawned /\ timeout # 0) ~> (pc = "returned")

\* Bit k of the non-negative integer n.
Bit(n, k) == (n \div (2 ^ k)) % 2

\* The permission bits m are 0666 & ~mask: a bit of m is set exactly when
\* it is set in 0666 and clear in mask.
IsMaxModeWithout(m, mask) ==
    /\ m \in 0..511
    /\ \A k \in 0..8 :
        Bit(m, k) = (IF Bit(MODE_MAX, k) = 1 /\ Bit(mask, k) = 0 THEN 1 ELSE 0)

\* C15: a scope that completed normally leaves the target with the new
\* content and the mode 0666 & ~M, M the file-creation mask of the process
\* at scope exit; get_umask leaves the mask as it was before the call and
\* returns that value.
C15_ModeAndMaskFrame ==
    /\ wpc = "done" =>
        /\ fs[target_path].exists
        /\ fs[target_path].content = intent
        /\ IsMaxModeWithout(fs[target_path].mode, umask)
    /\ wpc # "umask_restore" => umask = umask0
    /\ wpc \in {"chmod", "rename", "done"} => old_umask = umask0

\* C15 witness: a scope over an existing target completed under a mask
\* other than the one get_umask probes with, and changed the target's mode.
C15_Witness ==
    /\ wpc = "done"
    /\ initial.exists
    /\ umask0 # UMASK_PROBE
    /\ intent # <<>>
    /\ fs[target_path].mode # initial.mode

====
